---- MODULE Spec2Model ----
(***************************************************************************)
(* Model of the cursor-aware command-line parser of                        *)
(* internal/terminal/utils.go: parseFlag, parseSingleArg, parseArgs,       *)
(* ParseLine and the ParsedLine query API.                                 *)
(*                                                                         *)
(* A line is a sequence of one-character strings.  Go offsets are 0-based, *)
(* so the byte line[k] of the source is At(l, k) == l[k + 1] here.         *)
(* Pointers of the source (capture, pl.Focus, pl.Section) are references   *)
(* into the sequences flagvars (one entry per `var newFlag Flag`) and      *)
(* FlagsOrdered, so that a write through one alias is seen through the     *)
(* others exactly as in the source.                                        *)
(***************************************************************************)
EXTENDS Integers, Sequences, FiniteSets, TLC

\* Longest line explored.
MaxLen == 6

\* The bytes a line is made of: the separator, the dash and one other byte.
Chars == {" ", "-", "a"}

\* Flag names the query API is asked about.
QueryNames == {<<"a">>, <<"-">>}

\* Argument counts ExpectArgs is asked for.
QueryNeeds == {0, 1, 2}

VARIABLES
    line,          \* rawLine
    cursor,        \* cursorPosition
    pc,            \* position in ParseLine
    i,             \* offset of the driver loop
    flagvars,      \* the newFlag variables allocated so far
    capture,       \* <<>> (nil) or <<n>>: pointer to flagvars[n]
    FlagsOrdered,  \* pl.FlagsOrdered
    Flags,         \* pl.Flags
    Arguments,     \* pl.Arguments
    Focus,         \* pl.Focus: <<>> (nil) or a one-element sequence holding a reference
    Section,       \* pl.Section: <<>> (nil) or a one-element sequence holding a reference
    Command,       \* pl.Command: <<>> (nil) or <<cmd>>
    args,          \* parseArgs: the args collected so far
    endPos,        \* parseArgs: its offset
    q              \* the last query made of the ParsedLine and its result

vars == <<line, cursor, pc, i, flagvars, capture, FlagsOrdered, Flags, Arguments,
          Focus, Section, Command, args, endPos, q>>

At(l, k) == l[k + 1]

InRange(l, k) == k >= 0 /\ k < Len(l)

RECURSIVE Lines(_)
Lines(n) == IF n = 0 THEN {<<>>}
            ELSE Lines(n - 1) \cup {Append(l, c) : l \in {x \in Lines(n - 1) : Len(x) = n - 1}, c \in Chars}

\* ---------------------------------------------------------------- parseFlag

\* The test of line 158 with the run of dashes one shorter.
LongRunFromOneDash(e, startPos, linked) == e - startPos > 0 /\ linked

\* Line 158: the first byte of the value lies more than one byte after the start.
LongRun(e, startPos, linked) == e - startPos > 1 /\ linked

\* The loop of parseFlag; e is f.end, the loop variable.  The function returns f
\* with f.end as the loop left it: the offset of the space, or len(line).
RECURSIVE parseFlagLoop(_, _, _, _, _, _)
parseFlagLoop(l, startPos, e, linked, value, long) ==
    IF e >= Len(l)
    THEN [f |-> [start |-> startPos, end |-> e, value |-> value, long |-> long, Args |-> <<>>],
          endPos |-> IF e = startPos THEN 0 ELSE e - 1]
    ELSE IF At(l, e) = " "
    THEN [f |-> [start |-> startPos, end |-> e, value |-> value, long |-> long, Args |-> <<>>],
          endPos |-> e]
    ELSE IF At(l, e) = "-" /\ linked
    THEN parseFlagLoop(l, startPos, e + 1, linked, value, long)
    ELSE parseFlagLoop(l, startPos, e + 1, FALSE, Append(value, At(l, e)),
                       IF LongRun(e, startPos, linked) THEN TRUE ELSE long)

parseFlag(l, startPos) == parseFlagLoop(l, startPos, startPos, TRUE, <<>>, FALSE)

\* ------------------------------------------------------------ parseSingleArg

\* The loop of parseSingleArg; e is arg.end, the loop variable (the assignment
\* arg.end = endPos of line 180 writes the value it already has).
RECURSIVE parseSingleArgLoop(_, _, _, _)
parseSingleArgLoop(l, startPos, e, value) ==
    IF e >= Len(l)
    THEN [arg |-> [start |-> startPos, end |-> e, value |-> value],
          endPos |-> IF e = startPos THEN 0 ELSE e - 1]
    ELSE IF At(l, e) = " "
    THEN [arg |-> [start |-> startPos, end |-> e, value |-> value], endPos |-> e]
    ELSE parseSingleArgLoop(l, startPos, e + 1, Append(value, At(l, e)))

parseSingleArg(l, startPos) == parseSingleArgLoop(l, startPos, startPos, <<>>)

\* ----------------------------------------------------------------- parseArgs

\* The lookahead of line 198 without its bound test.
NextIsFlagUnguarded(l, p) ==
    IF ~InRange(l, p + 1) THEN "panic"
    ELSE IF At(l, p + 1) = "-" THEN "yes" ELSE "no"

\* The lookahead of line 198 never finding a flag.
NextIsFlagNever(l, p) == "no"

\* Line 198: endPos != len(line)-1 && line[endPos+1] == '-'.  A read outside the
\* line is a run-time panic.
NextIsFlag(l, p) ==
    IF p = Len(l) - 1 THEN "no"
    ELSE IF ~InRange(l, p + 1) THEN "panic"
    ELSE IF At(l, p + 1) = "-" THEN "yes" ELSE "no"

\* ----------------------------------------------------------------- ParseLine

MapPut(m, k, v) == [x \in (DOMAIN m) \cup {k} |-> IF x = k THEN v ELSE m[x]]

RECURSIVE MapPutAll(_, _)
MapPutAll(m, fs) == IF fs = <<>> THEN m
                    ELSE MapPutAll(MapPut(m, Head(fs).value, Head(fs)), Tail(fs))

Contains(n, c) == c >= n.start /\ c <= n.end

\* Lines 228-239 taking any non-empty value as capturing.
CapturesAnyValue(f) == IF f.long THEN TRUE ELSE Len(f.value) >= 1

\* Lines 228-239: a long flag, or a flag of one character, captures.
Captures(f) == IF f.long THEN TRUE ELSE Len(f.value) = 1

\* Lines 243-252: one Flag per character of the value, with the span start..i.
Expand(newFlag, e) ==
    [k \in 1..Len(newFlag.value) |->
        [start |-> newFlag.start, end |-> e, value |-> <<newFlag.value[k]>>,
         long |-> FALSE, Args |-> <<>>]]

\* Lines 215-218 and 276-279: the capturing flag is copied into the result.
FlushOrdered == IF capture = <<>> THEN FlagsOrdered
                ELSE Append(FlagsOrdered, flagvars[capture[1]])

FlushFlags == IF capture = <<>> THEN Flags
              ELSE MapPut(Flags, flagvars[capture[1]].value, flagvars[capture[1]])

Init ==
    /\ line \in Lines(MaxLen)
    /\ cursor \in -1..(Len(line) + 1)
    /\ pc = "loop"
    /\ i = 0
    /\ flagvars = <<>>
    /\ capture = <<>>
    /\ FlagsOrdered = <<>>
    /\ Flags = <<>>
    /\ Arguments = <<>>
    /\ Focus = <<>>
    /\ Section = <<>>
    /\ Command = <<>>
    /\ args = <<>>
    /\ endPos = 0
    /\ q = <<>>

\* Lines 213-255: one iteration of the driver loop at a dash.
LoopFlag ==
    /\ pc = "loop"
    /\ i < Len(line)
    /\ At(line, i) = "-"
    /\ LET r == parseFlag(line, i)
           newFlag == r.f
           n == Len(flagvars) + 1
           hit == Contains(newFlag, cursor)
       IN /\ flagvars' = Append(flagvars, newFlag)
          /\ Focus' = IF hit THEN <<[k |-> "var", n |-> n]>> ELSE Focus
          /\ Section' = IF hit THEN <<[k |-> "var", n |-> n]>> ELSE Section
          /\ capture' = IF Captures(newFlag) THEN <<n>> ELSE <<>>
          /\ FlagsOrdered' = IF Captures(newFlag) THEN FlushOrdered
                             ELSE FlushOrdered \o Expand(newFlag, r.endPos)
          /\ Flags' = IF Captures(newFlag) THEN FlushFlags
                      ELSE MapPutAll(FlushFlags, Expand(newFlag, r.endPos))
          /\ i' = r.endPos + 1
    /\ UNCHANGED <<line, cursor, pc, Arguments, Command, args, endPos, q>>

\* Lines 257-258 and 189: the driver loop is not at a dash and calls parseArgs.
LoopArgs ==
    /\ pc = "loop"
    /\ i < Len(line)
    /\ At(line, i) # "-"
    /\ pc' = "parseArgs"
    /\ args' = <<>>
    /\ endPos' = i
    /\ UNCHANGED <<line, cursor, i, flagvars, capture, FlagsOrdered, Flags, Arguments,
                   Focus, Section, Command, q>>

\* Lines 189-201: one iteration of the loop of parseArgs.
ParseArgsIter ==
    /\ pc = "parseArgs"
    /\ endPos < Len(line)
    /\ LET r == parseSingleArg(line, endPos)
           look == NextIsFlag(line, r.endPos)
       IN /\ args' = IF Len(r.arg.value) # 0 THEN Append(args, r.arg) ELSE args
          /\ pc' = IF look = "panic" THEN "panic"
                   ELSE IF look = "yes" THEN "argsDone" ELSE "parseArgs"
          /\ endPos' = IF look = "no" THEN r.endPos + 1 ELSE r.endPos
    /\ UNCHANGED <<line, cursor, i, flagvars, capture, FlagsOrdered, Flags, Arguments,
                   Focus, Section, Command, q>>

\* Lines 189 and 203: the loop of parseArgs ends at the end of the line.
ParseArgsExit ==
    /\ pc = "parseArgs"
    /\ endPos >= Len(line)
    /\ pc' = "argsDone"
    /\ UNCHANGED <<line, cursor, i, flagvars, capture, FlagsOrdered, Flags, Arguments,
                   Focus, Section, Command, args, endPos, q>>

\* The arguments of `as` the cursor is in (lines 261-267 keep the last).
Hits(as, c) == {m \in 1..Len(as) : Contains(as[m], c)}

MaxOf(S) == CHOOSE m \in S : \A k \in S : k <= m

\* Lines 258-272: the rest of the iteration once parseArgs has returned.
LoopArgsEnd ==
    /\ pc = "argsDone"
    /\ Arguments' = Arguments \o args
    /\ Focus' = IF Hits(args, cursor) # {}
                THEN <<[k |-> "arg", a |-> args[MaxOf(Hits(args, cursor))]]>>
                ELSE Focus
    /\ Section' = IF Hits(args, cursor) # {}
                  THEN (IF capture = <<>> THEN <<>> ELSE <<[k |-> "var", n |-> capture[1]]>>)
                  ELSE Section
    /\ flagvars' = IF capture = <<>> THEN flagvars
                   ELSE [flagvars EXCEPT ![capture[1]].Args = args]
    /\ i' = endPos + 1
    /\ pc' = "loop"
    /\ UNCHANGED <<line, cursor, capture, FlagsOrdered, Flags, Command, args, endPos, q>>

\* Lines 212 and 276-279: the driver loop ends and the capturing flag is flushed.
LoopExit ==
    /\ pc = "loop"
    /\ i >= Len(line)
    /\ FlagsOrdered' = FlushOrdered
    /\ Flags' = FlushFlags
    /\ pc' = "section"
    /\ UNCHANGED <<line, cursor, i, flagvars, capture, Arguments, Focus, Section,
                   Command, args, endPos, q>>

\* The walk of lines 283-295 without the `continue` of lines 289-291.
RECURSIVE SectionWalkNoSkip(_, _, _)
SectionWalkNoSkip(fo, c, k) ==
    IF k < 1 THEN [sec |-> <<>>, left |-> <<>>]
    ELSE IF Contains(fo[k], c) THEN [sec |-> <<k>>, left |-> <<>>]
    ELSE [sec |-> <<>>, left |-> <<k>>]

\* Lines 283-295: the walk over FlagsOrdered from the last flag to the first;
\* sec is the flag the cursor is in, left is closestLeft.
RECURSIVE SectionWalk(_, _, _)
SectionWalk(fo, c, k) ==
    IF k < 1 THEN [sec |-> <<>>, left |-> <<>>]
    ELSE IF Contains(fo[k], c) THEN [sec |-> <<k>>, left |-> <<>>]
    ELSE IF fo[k].end > c THEN SectionWalk(fo, c, k - 1)
    ELSE [sec |-> <<>>, left |-> <<k>>]

\* Lines 281-299: the section of the cursor.
SectionFallback ==
    /\ pc = "section"
    /\ LET w == SectionWalk(FlagsOrdered, cursor, Len(FlagsOrdered))
       IN Section' = IF w.sec # <<>> THEN <<[k |-> "ord", n |-> w.sec[1]]>>
                     ELSE IF Section = <<>> /\ w.left # <<>>
                     THEN <<[k |-> "ord", n |-> w.left[1]]>>
                     ELSE Section
    /\ pc' = "command"
    /\ UNCHANGED <<line, cursor, i, flagvars, capture, FlagsOrdered, Flags, Arguments,
                   Focus, Command, args, endPos, q>>

\* Lines 301-314: the first of Arguments becomes the Command.
CommandPromotion ==
    /\ pc = "command"
    /\ IF Command = <<>> /\ Len(Arguments) > 0
       THEN /\ Command' = <<Arguments[1]>>
            /\ Focus' = IF Contains(Arguments[1], cursor) THEN <<[k |-> "cmd"]>> ELSE Focus
            /\ Arguments' = Tail(Arguments)
       ELSE UNCHANGED <<Command, Focus, Arguments>>
    /\ pc' = "done"
    /\ UNCHANGED <<line, cursor, i, flagvars, capture, FlagsOrdered, Flags, Section,
                   args, endPos, q>>

\* ----------------------------------------------------------------- query API

\* ExpectArgs accepting any count of at least `needs`.
ExpectArgsAtLeast(fl, flag, needs) ==
    IF flag \in DOMAIN fl
    THEN IF Len(fl[flag].Args) < needs
         THEN [err |-> "expects n arguments", val |-> <<>>]
         ELSE [err |-> "nil", val |-> fl[flag].Args]
    ELSE [err |-> "ErrFlagNotSet", val |-> <<>>]

\* Lines 94-103.
ExpectArgs(fl, flag, needs) ==
    IF flag \in DOMAIN fl
    THEN IF Len(fl[flag].Args) # needs
         THEN [err |-> "expects n arguments", val |-> <<>>]
         ELSE [err |-> "nil", val |-> fl[flag].Args]
    ELSE [err |-> "ErrFlagNotSet", val |-> <<>>]

\* Lines 121-128; val holds the Argument returned.
GetArg(fl, flag) ==
    LET r == ExpectArgs(fl, flag, 1)
    IN IF r.err # "nil" THEN [err |-> r.err, val |-> <<>>]
       ELSE [err |-> "nil", val |-> <<r.val[1]>>]

\* Lines 130-141; val holds the string returned.
GetArgString(fl, flag) ==
    IF flag \notin DOMAIN fl THEN [err |-> "ErrFlagNotSet", val |-> <<>>]
    ELSE IF Len(fl[flag].Args) = 0
    THEN [err |-> "expects at least 1 argument", val |-> <<>>]
    ELSE [err |-> "nil", val |-> <<fl[flag].Args[1].value>>]

\* The query API only reads the ParsedLine, so each behaviour makes one query of
\* the line it parsed.
QueryExpectArgs ==
    /\ pc = "done"
    /\ q = <<>>
    /\ \E flag \in QueryNames, needs \in QueryNeeds :
          q' = <<[op |-> "ExpectArgs", flag |-> flag, needs |-> needs,
                  res |-> ExpectArgs(Flags, flag, needs)]>>
    /\ UNCHANGED <<line, cursor, pc, i, flagvars, capture, FlagsOrdered, Flags, Arguments,
                   Focus, Section, Command, args, endPos>>

QueryGetArg ==
    /\ pc = "done"
    /\ q = <<>>
    /\ \E flag \in QueryNames :
          q' = <<[op |-> "GetArg", flag |-> flag, needs |-> 1, res |-> GetArg(Flags, flag)]>>
    /\ UNCHANGED <<line, cursor, pc, i, flagvars, capture, FlagsOrdered, Flags, Arguments,
                   Focus, Section, Command, args, endPos>>

QueryGetArgString ==
    /\ pc = "done"
    /\ q = <<>>
    /\ \E flag \in QueryNames :
          q' = <<[op |-> "GetArgString", flag |-> flag, needs |-> 1,
                  res |-> GetArgString(Flags, flag)]>>
    /\ UNCHANGED <<line, cursor, pc, i, flagvars, capture, FlagsOrdered, Flags, Arguments,
                   Focus, Section, Command, args, endPos>>

\* ------------------------------------------------------------- specification

Parse ==
    \/ LoopFlag
    \/ LoopArgs
    \/ ParseArgsIter
    \/ ParseArgsExit
    \/ LoopArgsEnd
    \/ LoopExit
    \/ SectionFallback
    \/ CommandPromotion

Query ==
    \/ QueryExpectArgs
    \/ QueryGetArg
    \/ QueryGetArgString

Next == Parse \/ Query

Spec == Init /\ [][Next]_vars

\* One call of ParseLine alone.  It is a sequential function: a call that can
\* take a step takes it.
FairSpec == Init /\ [][Parse]_vars /\ WF_vars(Parse)

\* ------------------------------------------------------------ the ParsedLine

\* The Flag pl.Section points to.
SectionVal == IF Section[1].k = "var" THEN flagvars[Section[1].n]
              ELSE FlagsOrdered[Section[1].n]

\* The Node pl.Focus points to, as the Node interface shows it.
FocusNode ==
    IF Focus[1].k = "var"
    THEN [type |-> "flag", start |-> flagvars[Focus[1].n].start,
          end |-> flagvars[Focus[1].n].end, value |-> flagvars[Focus[1].n].value]
    ELSE IF Focus[1].k = "arg"
    THEN [type |-> "argument", start |-> Focus[1].a.start, end |-> Focus[1].a.end,
          value |-> Focus[1].a.value]
    ELSE [type |-> "command", start |-> Command[1].start, end |-> Command[1].end,
          value |-> Command[1].value]

Done == pc = "done"

\* ------------------------------------------------------- tokens of the line

\* The offsets at which a whitespace-delimited token starts.
TokStarts(l) == {p \in 0..(Len(l) - 1) : At(l, p) # " " /\ (p = 0 \/ At(l, p - 1) = " ")}

\* The offset of the last byte of the token holding offset p.
TokLast(l, p) ==
    CHOOSE e \in p..(Len(l) - 1) :
        /\ \A k \in p..e : At(l, k) # " "
        /\ (e = Len(l) - 1 \/ At(l, e + 1) = " ")

\* The offset of the first byte of the token holding offset p.
TokFirst(l, p) ==
    CHOOSE s \in 0..p :
        /\ \A k \in s..p : At(l, k) # " "
        /\ (s = 0 \/ At(l, s - 1) = " ")

ArgToks(l) == {p \in TokStarts(l) : At(l, p) # "-"}

FlagToks(l) == {p \in TokStarts(l) : At(l, p) = "-"}

\* The bytes of the line from offset a to offset b.
Text(l, a, b) == [k \in 1..(b - a + 1) |-> At(l, a + k - 1)]

\* The number of consecutive dashes from offset p on.
Dashes(l, p) == Cardinality({e \in p..(Len(l) - 1) : \A k \in p..e : At(l, k) = "-"})

\* The text of the token from offset p on, without its leading dashes.
Stripped(l, p) == Text(l, p + Dashes(l, p), TokLast(l, p))

\* The argument tokens between the flag token at p and the next flag token.
Following(l, p) == {t \in ArgToks(l) : t > p /\ \A f \in FlagToks(l) : ~(p < f /\ f < t)}

\* The elements of a set of offsets in increasing order.
RECURSIVE Ascending(_)
Ascending(S) == IF S = {} THEN <<>>
                ELSE LET m == CHOOSE x \in S : \A y \in S : x <= y
                     IN <<m>> \o Ascending(S \ {m})

\* Every node of the ParsedLine: flags, their arguments, the arguments, the command.
FlagNodes == {FlagsOrdered[k] : k \in DOMAIN FlagsOrdered}

OwnedArgs == UNION {{f.Args[j] : j \in DOMAIN f.Args} : f \in FlagNodes}

ArgNodes == {Arguments[k] : k \in DOMAIN Arguments} \cup OwnedArgs
            \cup {Command[k] : k \in DOMAIN Command}

RECURSIVE OwnedCount(_, _)
OwnedCount(fo, p) ==
    IF fo = <<>> THEN 0
    ELSE Cardinality({j \in DOMAIN Head(fo).Args : Head(fo).Args[j].start = p})
         + OwnedCount(Tail(fo), p)

\* How many times the token starting at p stands in Command, Arguments and flags' Args.
Occurrences(p) ==
    Cardinality({k \in DOMAIN Command : Command[k].start = p})
    + Cardinality({k \in DOMAIN Arguments : Arguments[k].start = p})
    + OwnedCount(FlagsOrdered, p)

\* ------------------------------------------------------------------ claims

\* C1: after ParseLine returns, every token that does not begin with '-' stands
\* exactly once in Command, Arguments and the Args of the flags of FlagsOrdered.
C1_EveryTokenExactlyOnce ==
    Done => \A p \in ArgToks(line) : Occurrences(p) = 1

\* The flag token at p captures on any reading: two or more dashes before a
\* non-empty value, or one dash before a value of one character.
CapturingTok(l, p) ==
    \/ Dashes(l, p) >= 2 /\ Len(Stripped(l, p)) >= 1
    \/ Dashes(l, p) = 1 /\ Len(Stripped(l, p)) = 1

\* C3: with the cursor on an argument token that follows a capturing flag F with no
\* flag token in between, Focus is that Argument node (Type "argument") and Section
\* is F.
C3_FocusOwnedArgumentSectionItsFlag ==
    Done =>
      \A p \in FlagToks(line) : \A t \in Following(line, p) :
         (CapturingTok(line, p) /\ t <= cursor /\ cursor <= TokLast(line, t)) =>
            /\ Focus # <<>>
            /\ FocusNode.type = "argument"
            /\ FocusNode.start = t
            /\ Section # <<>>
            /\ SectionVal.start = p

\* C4: Focus is set only when the cursor is the offset of a non-space byte of a
\* token, and is then the node of that token; it is unset when the cursor is on a
\* space or outside 0..len(line)-1.
C4_FocusOnlyOnTokenBytes ==
    Done =>
      IF InRange(line, cursor) /\ At(line, cursor) # " "
      THEN Focus # <<>> => FocusNode.start = TokFirst(line, cursor)
      ELSE Focus = <<>>

\* C5: every node has 0 <= start <= end < len(line), end being the offset of the
\* last byte of its token.
C5_NodeSpansInclusive ==
    Done =>
      \A n \in FlagNodes \cup ArgNodes :
         /\ 0 <= n.start
         /\ n.start <= n.end
         /\ n.end < Len(line)
         /\ n.end = TokLast(line, n.start)

\* The line is one dash, a bundle of two or more bytes, one space and one
\* argument token: "-aft value".
BundleLine(l) ==
    /\ Len(l) >= 5
    /\ FlagToks(l) = {0}
    /\ Dashes(l, 0) = 1
    /\ Len(Stripped(l, 0)) >= 2
    /\ ArgToks(l) = {TokLast(l, 0) + 2}
    /\ Cardinality({k \in 0..(Len(l) - 1) : At(l, k) = " "}) = 1

\* The flags of a bundle line: one per byte of the bundle, in order, with one
\* span and no Args.
BundleFlags ==
    /\ Len(FlagsOrdered) = Len(Stripped(line, 0))
    /\ \A k \in DOMAIN FlagsOrdered :
          /\ FlagsOrdered[k].value = <<Stripped(line, 0)[k]>>
          /\ FlagsOrdered[k].start = FlagsOrdered[1].start
          /\ FlagsOrdered[k].end = FlagsOrdered[1].end
          /\ FlagsOrdered[k].Args = <<>>

\* C2 as stated: for a line such as "-aft value" there is one Flag per byte of the
\* bundle, all with one span and no Args, and the argument token stands in the
\* top-level Arguments and in no flag's Args.
C2_BundleArgumentInArguments ==
    (Done /\ BundleLine(line)) =>
       /\ BundleFlags
       /\ \E k \in DOMAIN Arguments : Arguments[k].start = TokLast(line, 0) + 2
       /\ OwnedCount(FlagsOrdered, TokLast(line, 0) + 2) = 0

\* C2 amended: for a line such as "-aft value" there is one Flag per byte of the
\* bundle, in order, all with one span and no Args; the argument token is in no
\* flag's Args and, being the first top-level argument, is the Command, which
\* leaves Arguments empty.
C2_BundleArgumentIsCommand ==
    (Done /\ BundleLine(line)) =>
       /\ BundleFlags
       /\ OwnedCount(FlagsOrdered, TokLast(line, 0) + 2) = 0
       /\ Len(Command) = 1
       /\ Command[1].start = TokLast(line, 0) + 2
       /\ Command[1].value = Text(line, TokLast(line, 0) + 2, Len(line) - 1)
       /\ Arguments = <<>>

C2_Witness ==
    /\ Done
    /\ BundleLine(line)
    /\ Len(FlagsOrdered) = 2
    /\ FlagsOrdered[1].value # FlagsOrdered[2].value
    /\ Len(Command) = 1

\* The cursor is in the span of an argument owned by a flag.
CursorInOwnedArg == \E a \in OwnedArgs : Contains(a, cursor)

Last(S) == CHOOSE m \in S : \A k \in S : k <= m

FlagsAt(c) == {k \in DOMAIN FlagsOrdered : Contains(FlagsOrdered[k], c)}

FlagsLeftOf(c) == {k \in DOMAIN FlagsOrdered : FlagsOrdered[k].end <= c}

\* C6 as stated: with the cursor outside every flag-owned argument, Section is a
\* flag of FlagsOrdered holding the cursor if there is one, else the last flag of
\* FlagsOrdered with end <= cursor, else unset; when set it is a flag of FlagsOrdered.
C6_SectionFromFlagsOrdered ==
    (Done /\ ~CursorInOwnedArg) =>
       IF FlagsAt(cursor) # {}
       THEN Section # <<>> /\ SectionVal \in {FlagsOrdered[k] : k \in FlagsAt(cursor)}
       ELSE IF FlagsLeftOf(cursor) # {}
       THEN Section # <<>> /\ SectionVal = FlagsOrdered[Last(FlagsLeftOf(cursor))]
       ELSE Section = <<>>

\* The flags parseFlag scanned whose span holds the cursor.
ScannedAt(c) == {n \in DOMAIN flagvars : Contains(flagvars[n], c)}

\* C6 amended: with the cursor outside every flag-owned argument, Section is the
\* last flag of FlagsOrdered holding the cursor if there is one; else, if the cursor
\* is in the span of a flag as parseFlag scanned it, Section is that scanned flag,
\* which is no element of FlagsOrdered; else the last flag of FlagsOrdered with
\* end <= cursor; else unset.
C6_SectionFromFlagsOrScannedFlag ==
    (Done /\ ~CursorInOwnedArg) =>
       IF FlagsAt(cursor) # {}
       THEN Section # <<>> /\ SectionVal = FlagsOrdered[Last(FlagsAt(cursor))]
       ELSE IF ScannedAt(cursor) # {}
       THEN /\ Section # <<>>
            /\ SectionVal \in {flagvars[n] : n \in ScannedAt(cursor)}
            /\ SectionVal \notin FlagNodes
       ELSE IF FlagsLeftOf(cursor) # {}
       THEN Section # <<>> /\ SectionVal = FlagsOrdered[Last(FlagsLeftOf(cursor))]
       ELSE Section = <<>>

C6_Witness ==
    /\ Done
    /\ ~CursorInOwnedArg
    /\ FlagsAt(cursor) = {}
    /\ ScannedAt(cursor) # {}
    /\ FlagsLeftOf(cursor) # {}
    /\ Section # <<>>
    /\ SectionVal \notin FlagNodes
    /\ SectionVal.value = <<>>

\* The flags of FlagsOrdered made from the flag token at p.
FlagsOfTok(p) == {k \in DOMAIN FlagsOrdered : FlagsOrdered[k].start = p}

\* The flag token at p has one flag in FlagsOrdered, whose Args are the argument
\* tokens between it and the next flag token, in order.
OwnsFollowing(p) ==
    /\ Cardinality(FlagsOfTok(p)) = 1
    /\ \A k \in FlagsOfTok(p) :
          /\ FlagsOrdered[k].value = Stripped(line, p)
          /\ [j \in DOMAIN FlagsOrdered[k].Args |-> FlagsOrdered[k].Args[j].start]
                = Ascending(Following(line, p))
          /\ \A j \in DOMAIN FlagsOrdered[k].Args :
                FlagsOrdered[k].Args[j].value
                   = Text(line, FlagsOrdered[k].Args[j].start,
                          TokLast(line, FlagsOrdered[k].Args[j].start))

\* Every token that begins with '-' was scanned by parseFlag and none is an argument.
FlagToksScanned ==
    /\ \A p \in FlagToks(line) : \E n \in DOMAIN flagvars : flagvars[n].start = p
    /\ \A a \in ArgNodes : a.start \in ArgToks(line)

\* C7 as stated: a flag token of two or more dashes, or of one dash and a value of
\* one character, owns exactly the argument tokens between it and the next token
\* that begins with '-', in order; a token that begins with '-' is always scanned
\* as a flag and never taken as an argument.
C7_CapturingFlagOwnsFollowing ==
    Done =>
       /\ \A p \in FlagToks(line) :
             (Dashes(line, p) >= 2 \/ (Dashes(line, p) = 1 /\ Len(Stripped(line, p)) = 1))
                => OwnsFollowing(p)
       /\ FlagToksScanned

\* C7 amended: a flag token of two or more dashes and a non-empty value, or of one
\* dash and a value of one character, owns exactly the argument tokens between it
\* and the next token that begins with '-', in order; a token of dashes only
\* records no flag and owns nothing; a token that begins with '-' is always
\* scanned as a flag and never taken as an argument.
C7_NamedCapturingFlagOwnsFollowing ==
    Done =>
       /\ \A p \in FlagToks(line) :
             /\ CapturingTok(line, p) => OwnsFollowing(p)
             /\ Len(Stripped(line, p)) = 0 => FlagsOfTok(p) = {}
       /\ FlagToksScanned

C7_Witness ==
    /\ Done
    /\ CapturingTok(line, 0)
    /\ Len(flagvars) = 2
    /\ Len(FlagsOrdered) >= 1
    /\ Len(FlagsOrdered[1].Args) = 1
    /\ Following(line, 0) # {}

\* What GetArg and GetArgString return for an absent flag and for one argument, and
\* when ExpectArgs fails.
QueryCommon ==
    \A k \in DOMAIN q :
       /\ q[k].flag \notin DOMAIN Flags => q[k].res.err = "ErrFlagNotSet"
       /\ (q[k].op = "ExpectArgs" /\ q[k].flag \in DOMAIN Flags) =>
             IF Len(Flags[q[k].flag].Args) # q[k].needs
             THEN q[k].res.err = "expects n arguments"
             ELSE q[k].res = [err |-> "nil", val |-> Flags[q[k].flag].Args]
       /\ (q[k].op = "GetArg" /\ q[k].flag \in DOMAIN Flags) =>
             IF Len(Flags[q[k].flag].Args) = 1
             THEN q[k].res = [err |-> "nil", val |-> <<Flags[q[k].flag].Args[1]>>]
             ELSE q[k].res.err \notin {"nil", "ErrFlagNotSet"}
       /\ (q[k].op = "GetArgString" /\ q[k].flag \in DOMAIN Flags
             /\ Len(Flags[q[k].flag].Args) = 1) =>
             q[k].res = [err |-> "nil", val |-> <<Flags[q[k].flag].Args[1].value>>]

\* C8 as stated: GetArg and GetArgString return ErrFlagNotSet for an absent flag,
\* the single argument for a flag of one argument, and an error for a flag of zero
\* or of two or more arguments; ExpectArgs(name, n) fails with the arity error
\* exactly when the flag is present with a count other than n.
C8_GetArgStringNeedsExactlyOne ==
    /\ QueryCommon
    /\ \A k \in DOMAIN q :
          (q[k].op = "GetArgString" /\ q[k].flag \in DOMAIN Flags
             /\ Len(Flags[q[k].flag].Args) # 1) =>
             q[k].res.err \notin {"nil", "ErrFlagNotSet"}

\* C8 amended: as stated for GetArg and ExpectArgs; GetArgString fails for a
\* present flag only when it has no argument, and for one or more arguments
\* returns the value of the first.
C8_GetArgStringNeedsAtLeastOne ==
    /\ QueryCommon
    /\ \A k \in DOMAIN q :
          (q[k].op = "GetArgString" /\ q[k].flag \in DOMAIN Flags) =>
             IF Len(Flags[q[k].flag].Args) = 0
             THEN q[k].res.err = "expects at least 1 argument"
             ELSE q[k].res = [err |-> "nil", val |-> <<Flags[q[k].flag].Args[1].value>>]

C8_Witness ==
    /\ Done
    /\ Len(q) = 1
    /\ q[1].op = "GetArgString"
    /\ q[1].flag \in DOMAIN Flags
    /\ Len(Flags[q[1].flag].Args) = 2
    /\ q[1].res.err = "nil"

\* C9: ParseLine returns for every line and cursor: no read of line[k] is outside
\* the line, the offset of the driver loop and the offset of parseArgs grow with
\* every iteration, the call reaches its return, and for the empty line the
\* result is empty.
C9_ParseLineTerminates ==
    /\ [](pc # "panic")
    /\ [][(pc \in {"loop", "argsDone"} /\ pc' = "loop") => i' > i]_vars
    /\ [][(pc = "parseArgs" /\ pc' = "parseArgs") => endPos' > endPos]_vars
    /\ [][(pc = "parseArgs" /\ pc' = "argsDone") => endPos' >= i]_vars
    /\ <>Done
    /\ []((Done /\ line = <<>>) =>
            /\ Arguments = <<>>
            /\ Flags = <<>>
            /\ FlagsOrdered = <<>>
            /\ Command = <<>>
            /\ Focus = <<>>)

C9_Witness ==
    /\ Done
    /\ Len(line) >= 3
    /\ line[1] = " "
    /\ line[Len(line) - 1] = " "
    /\ line[Len(line)] = "-"
    /\ Command # <<>>

\* C10 as stated: parseFlag strips the leading dashes from the value and sets long
\* exactly when the token has two or more leading dashes or its value is longer
\* than one character.
C10_LongByDashesOrLength ==
    \A p \in 0..(Len(line) - 1) :
       At(line, p) = "-" =>
          /\ parseFlag(line, p).f.value = Stripped(line, p)
          /\ parseFlag(line, p).f.long
                <=> (Dashes(line, p) >= 2 \/ Len(Stripped(line, p)) > 1)

\* C10 amended: parseFlag strips the leading dashes from the value and sets long
\* exactly when the token has two or more leading dashes and a non-empty value;
\* the length of the value plays no part.
C10_LongByDashesBeforeValue ==
    \A p \in 0..(Len(line) - 1) :
       At(line, p) = "-" =>
          /\ parseFlag(line, p).f.value = Stripped(line, p)
          /\ parseFlag(line, p).f.long
                <=> (Dashes(line, p) >= 2 /\ Len(Stripped(line, p)) >= 1)

C10_Witness ==
    /\ Done
    /\ Len(flagvars) = 1
    /\ Dashes(line, 0) = 1
    /\ ~flagvars[1].long
    /\ Len(flagvars[1].value) = 2

====
